---- MODULE Spec2Model ----
(***************************************************************************)
(* Multi-agent orchestration of supergrok-cli: AccountManager (the         *)
(* resource allocator over two rate-limited accounts), SubAgent (one       *)
(* subtask against one account) and SuperAgent (decompose, dispatch by     *)
(* strategy, aggregate).                                                   *)
(*                                                                         *)
(* Modelling conventions                                                   *)
(*  - JavaScript runs one callback at a time, so every action is the code  *)
(*    between two suspension points (await of client.chat, of the          *)
(*    setTimeout in waitForAvailability, or of a promise continuation).    *)
(*    Promise continuations (microtasks) run before any timer or I/O       *)
(*    callback; the guards named Urgent/NoMicrotask encode that order.     *)
(*  - Date.now() is the variable now, in milliseconds.                     *)
(*  - cost is kept in millionths of a dollar, so that                      *)
(*    (tokens / 1000) * 0.005 is tokens * 5.                               *)
(*  - uuidv4() ids are taken to be unique; a subtask's id is its position  *)
(*    in the decomposition.                                                *)
(***************************************************************************)
EXTENDS Integers, Sequences, FiniteSets, TLC

---------------------------------------------------------------------------
(* Bounds of the model *)

MaxTokens == 1
MaxSubTasks == 2
MaxCalls == 3
MaxTicks == 2
TickMs == 30000

---------------------------------------------------------------------------
(* Program constants *)

WindowMs == 60000
PollMs == 1000
RatePerTokenFast == 5
RatePerTokenBalanced == 8
RatePerTokenCapable == 15
RatePerTokenDefault == 10
RatePerTokenSuper == 10

AccountIds == {"account1", "account2"}
LoadBalancing == {"round-robin", "least-loaded", "cost-optimized"}
Strategies == {"parallel", "sequential", "adaptive"}
Complexities == {"simple", "medium", "complex"}

Max(a, b) == IF a >= b THEN a ELSE b

RECURSIVE SumSeq(_)
SumSeq(s) == IF s = <<>> THEN 0 ELSE Head(s) + SumSeq(Tail(s))

---------------------------------------------------------------------------
(* AccountManager *)

NewAccount(cfg) ==
    [ config |-> cfg,
      stats |-> [ totalRequests |-> 0, totalTokens |-> 0, totalCost |-> 0,
                  activeRequests |-> 0, lastUsed |-> 0 ],
      requestTimestamps |-> <<>> ]

NewAccountManager(account1, account2, strategy) ==
    [ accounts |-> [ a \in AccountIds |->
                       IF a = "account1" THEN NewAccount(account1)
                                         ELSE NewAccount(account2) ],
      strategy |-> strategy,
      currentAccountIndex |-> 0 ]

(* A filter that keeps the timestamp that is exactly 60 seconds old. *)
CleanTimestampsInclusive(ts, t) == SelectSeq(ts, LAMBDA x : x >= t - WindowMs)

(* isRateLimited: the filter it applies, its result, and the manager after
   the call (the filtered window is stored back). *)
CleanTimestamps(ts, t) == SelectSeq(ts, LAMBDA x : x > t - WindowMs)

isRateLimited(m, a, t) ==
    Len(CleanTimestamps(m.accounts[a].requestTimestamps, t))
        >= m.accounts[a].config.rateLimit

AfterIsRateLimited(m, a, t) ==
    [m EXCEPT !.accounts[a].requestTimestamps = CleanTimestamps(@, t)]

(* A round-robin that starts with account2. *)
selectRoundRobinFromSecond(m) ==
    [ m  |-> [m EXCEPT !.currentAccountIndex = @ + 1],
      id |-> IF m.currentAccountIndex % 2 = 0 THEN "account2" ELSE "account1" ]

(* A round-robin whose index never advances. *)
selectRoundRobinNoAdvance(m) ==
    [ m  |-> m,
      id |-> IF m.currentAccountIndex % 2 = 0 THEN "account1" ELSE "account2" ]

(* The selectors return [m |-> manager after the call, id |-> account]. *)
selectRoundRobin(m) ==
    [ m  |-> [m EXCEPT !.currentAccountIndex = @ + 1],
      id |-> IF m.currentAccountIndex % 2 = 0 THEN "account1" ELSE "account2" ]

(* Both conditions of the two ifs together evaluate isRateLimited on both
   accounts, whatever the short-circuit order. *)
AfterBothChecks(m, t) ==
    AfterIsRateLimited(AfterIsRateLimited(m, "account1", t), "account2", t)

(* getHealthStatus: isRateLimited is called for both accounts, which stores
   the filtered windows, before the lengths of the windows are read. *)
getHealthStatus(m, t) ==
    LET m2 == AfterBothChecks(m, t)
    IN [a \in AccountIds |->
          [ available |-> /\ ~isRateLimited(m, a, t)
                          /\ m2.accounts[a].stats.activeRequests
                                < m2.accounts[a].config.maxConcurrent,
            activeRequests |-> m2.accounts[a].stats.activeRequests,
            rateLimitRemaining |-> m2.accounts[a].config.rateLimit
                                     - Len(m2.accounts[a].requestTimestamps) ]]

(* A least-loaded that takes account2 on a tie. *)
selectLeastLoadedSecondOnTie(m, t) ==
    LET l1 == isRateLimited(m, "account1", t)
        l2 == isRateLimited(m, "account2", t)
    IN [ m  |-> AfterIsRateLimited(AfterIsRateLimited(m, "account1", t), "account2", t),
         id |-> IF l1 /\ ~l2 THEN "account2"
                ELSE IF l2 /\ ~l1 THEN "account1"
                ELSE IF m.accounts["account1"].stats.activeRequests
                          < m.accounts["account2"].stats.activeRequests
                     THEN "account1" ELSE "account2" ]

(* A cost-optimized that compares activeRequests instead of totalCost. *)
selectCostOptimizedByLoad(m, t) ==
    LET l1 == isRateLimited(m, "account1", t)
        l2 == isRateLimited(m, "account2", t)
    IN [ m  |-> AfterIsRateLimited(AfterIsRateLimited(m, "account1", t), "account2", t),
         id |-> IF l1 /\ ~l2 THEN "account2"
                ELSE IF l2 /\ ~l1 THEN "account1"
                ELSE IF m.accounts["account1"].stats.activeRequests
                          <= m.accounts["account2"].stats.activeRequests
                     THEN "account1" ELSE "account2" ]

(* A least-loaded that compares activeRequests without the rate-limit checks. *)
selectLeastLoadedNoOverride(m, t) ==
    [ m  |-> m,
      id |-> IF m.accounts["account1"].stats.activeRequests
                  <= m.accounts["account2"].stats.activeRequests
             THEN "account1" ELSE "account2" ]

selectLeastLoaded(m, t) ==
    LET m2 == AfterBothChecks(m, t)
        l1 == isRateLimited(m, "account1", t)
        l2 == isRateLimited(m, "account2", t)
    IN [ m  |-> m2,
         id |-> IF l1 /\ ~l2 THEN "account2"
                ELSE IF l2 /\ ~l1 THEN "account1"
                ELSE IF m.accounts["account1"].stats.activeRequests
                          <= m.accounts["account2"].stats.activeRequests
                     THEN "account1" ELSE "account2" ]

(* A cost-optimized that adds to an account's cost an estimate for each of
   its requests in flight. *)
selectCostOptimizedCountsInFlight(m, t) ==
    LET l1 == isRateLimited(m, "account1", t)
        l2 == isRateLimited(m, "account2", t)
        e1 == m.accounts["account1"].stats.totalCost
                 + RatePerTokenSuper * m.accounts["account1"].stats.activeRequests
        e2 == m.accounts["account2"].stats.totalCost
                 + RatePerTokenSuper * m.accounts["account2"].stats.activeRequests
    IN [ m  |-> AfterIsRateLimited(AfterIsRateLimited(m, "account1", t), "account2", t),
         id |-> IF l1 /\ ~l2 THEN "account2"
                ELSE IF l2 /\ ~l1 THEN "account1"
                ELSE IF e1 <= e2 THEN "account1" ELSE "account2" ]

selectCostOptimized(m, t) ==
    LET m2 == AfterBothChecks(m, t)
        l1 == isRateLimited(m, "account1", t)
        l2 == isRateLimited(m, "account2", t)
    IN [ m  |-> m2,
         id |-> IF l1 /\ ~l2 THEN "account2"
                ELSE IF l2 /\ ~l1 THEN "account1"
                ELSE IF m.accounts["account1"].stats.totalCost
                          <= m.accounts["account2"].stats.totalCost
                     THEN "account1" ELSE "account2" ]

selectAccount(m, t) ==
    CASE m.strategy = "round-robin"    -> selectRoundRobin(m)
      [] m.strategy = "least-loaded"   -> selectLeastLoaded(m, t)
      [] m.strategy = "cost-optimized" -> selectCostOptimized(m, t)
      [] OTHER                         -> [m |-> m, id |-> "account1"]

NoAccount == "none"

(* A getClient that loses the timestamp of the request. *)
getClientNoTimestamp(m, accountId, t) ==
    LET sel == IF accountId # NoAccount THEN [m |-> m, id |-> accountId]
                                        ELSE selectAccount(m, t)
        a   == sel.id
    IN [ m  |-> [sel.m EXCEPT
                   !.accounts[a].stats.activeRequests = @ + 1,
                   !.accounts[a].stats.totalRequests = @ + 1,
                   !.accounts[a].stats.lastUsed = t],
         id |-> a ]

(* getClient(accountId?): [m |-> manager after the call, id |-> account]. *)
getClient(m, accountId, t) ==
    LET sel == IF accountId # NoAccount THEN [m |-> m, id |-> accountId]
                                        ELSE selectAccount(m, t)
        a   == sel.id
    IN [ m  |-> [sel.m EXCEPT
                   !.accounts[a].requestTimestamps = Append(@, t),
                   !.accounts[a].stats.activeRequests = @ + 1,
                   !.accounts[a].stats.totalRequests = @ + 1,
                   !.accounts[a].stats.lastUsed = t],
         id |-> a ]

(* completeRequest without Math.max(0, ...). *)
completeRequestUnclamped(m, a, tokensUsed, cost) ==
    [m EXCEPT !.accounts[a].stats.activeRequests = @ - 1,
              !.accounts[a].stats.totalTokens = @ + tokensUsed,
              !.accounts[a].stats.totalCost = @ + cost]

completeRequest(m, a, tokensUsed, cost) ==
    [m EXCEPT !.accounts[a].stats.activeRequests = Max(0, @ - 1),
              !.accounts[a].stats.totalTokens = @ + tokensUsed,
              !.accounts[a].stats.totalCost = @ + cost]

(* waitForAvailability's loop condition: isRateLimited('account1') &&
   isRateLimited('account2'); the second check runs only if the first is
   true. *)
BothRateLimited(m, t) ==
    isRateLimited(m, "account1", t) /\ isRateLimited(m, "account2", t)

AfterAvailabilityCheck(m, t) ==
    IF isRateLimited(m, "account1", t)
    THEN AfterBothChecks(m, t)
    ELSE AfterIsRateLimited(m, "account1", t)

---------------------------------------------------------------------------
(* Values exchanged with the collaborators *)

Missing == "undefined"

(* client.chat for a sub-agent or for synthesis: it throws, or it returns a
   response whose first choice's content and whose usage may be absent. *)
ChatError == [ok |-> FALSE, content |-> Missing, tokens |-> 0]

ChatResponses ==
    {ChatError, [ok |-> TRUE, content |-> Missing, tokens |-> 0]}
      \cup {[ok |-> TRUE, content |-> "answer", tokens |-> t] : t \in 1..MaxTokens}

(* The decomposition response content, as JSON.parse sees it: text that is
   not JSON, JSON that is not an array, or an array of elements.  An element
   is an object, a number (every property of it reads undefined) or null
   (reading a property of it throws); priority 0 stands for an absent or
   falsy priority. *)
ElemSimple  == [kind |-> "object", description |-> "part", priority |-> 2,
                estimatedComplexity |-> "simple"]
ElemComplex == [kind |-> "object", description |-> "part", priority |-> 0,
                estimatedComplexity |-> "complex"]
ElemBare    == [kind |-> "number", description |-> Missing, priority |-> 0,
                estimatedComplexity |-> Missing]
ElemNull    == [kind |-> "null", description |-> Missing, priority |-> 0,
                estimatedComplexity |-> Missing]

(* An object whose estimatedComplexity is none of simple, medium, complex. *)
ElemOdd     == [kind |-> "object", description |-> "part", priority |-> 1,
                estimatedComplexity |-> "hard"]

NoContent == [json |-> "missing", elems |-> <<>>]

(* What JSON.parse makes of '[]', the text used when the content is absent. *)
EmptyArray == [json |-> "array", elems |-> <<>>]

(* The decomposition responses: the call fails; a response without content;
   text that is not JSON; JSON that is not an array; the empty array; an
   array holding a number; an array holding null; an array holding an object
   with an unrecognised complexity; every array of well-formed subtask
   objects up to MaxSubTasks. *)
WellFormedArrays ==
    UNION {[1..n -> {ElemSimple, ElemComplex}] : n \in 1..MaxSubTasks}

DecompContents ==
    {[json |-> "invalid", elems |-> <<>>],
     [json |-> "scalar", elems |-> <<>>],
     EmptyArray,
     [json |-> "array", elems |-> << ElemBare >>],
     [json |-> "array", elems |-> << ElemNull >>],
     [json |-> "array", elems |-> << ElemOdd >>]}
      \cup {[json |-> "array", elems |-> a] : a \in WellFormedArrays}

DecompResponses ==
    {[ok |-> FALSE, content |-> NoContent, tokens |-> 0],
     [ok |-> TRUE, content |-> NoContent, tokens |-> 0]}
      \cup {[ok |-> TRUE, content |-> c, tokens |-> 1] : c \in DecompContents}

ChatErrorMsg == "chat failed"
DbErrorMsg == "database failed"

---------------------------------------------------------------------------
(* SubAgent *)

(* A selectModel whose default is the most capable model. *)
selectModelDefaultCapable(complexity) ==
    CASE complexity = "simple"  -> "grok-code-fast-1"
      [] complexity = "medium"  -> "grok-3-fast"
      [] OTHER                  -> "grok-4"

selectModel(complexity) ==
    CASE complexity = "simple"  -> "grok-code-fast-1"
      [] complexity = "medium"  -> "grok-3-fast"
      [] complexity = "complex" -> "grok-4"
      [] OTHER                  -> "grok-3-fast"

CostPerToken(model) ==
    CASE model = "grok-code-fast-1" -> RatePerTokenFast
      [] model = "grok-3-fast"      -> RatePerTokenBalanced
      [] model = "grok-4"           -> RatePerTokenCapable
      [] OTHER                      -> RatePerTokenDefault

SubAgentEstimateCost(tokens, model) == tokens * CostPerToken(model)

NoResult == [taskId |-> "none", success |-> FALSE, result |-> "", tokensUsed |-> 0,
             cost |-> 0, account |-> NoAccount, error |-> Missing]

NewSubAgent(subTask) ==
    [ task |-> subTask, pc |-> "new", accountId |-> NoAccount, wakeAt |-> 0,
      chat |-> "none", released |-> 0, saved |-> 0, model |-> "none",
      result |-> NoResult ]

(* A catch block that charges the failed call one token. *)
ExecuteCatchCharges(m, ag, errorMsg, dbThrows) ==
    IF dbThrows
    THEN [m |-> m, agent |-> [ag EXCEPT !.pc = "rejected"]]
    ELSE [m |-> completeRequest(m, ag.accountId, 1, RatePerTokenDefault),
          agent |-> [ag EXCEPT !.pc = "returned",
                               !.released = @ + 1,
                               !.result = [taskId |-> ag.task.id, success |-> FALSE,
                                           result |-> "", tokensUsed |-> 0, cost |-> 0,
                                           account |-> ag.accountId,
                                           error |-> errorMsg]]]

(* A catch block that forgets completeRequest. *)
ExecuteCatchNoRelease(m, ag, errorMsg, dbThrows) ==
    IF dbThrows
    THEN [m |-> m, agent |-> [ag EXCEPT !.pc = "rejected"]]
    ELSE [m |-> m,
          agent |-> [ag EXCEPT !.pc = "returned",
                               !.result = [taskId |-> ag.task.id, success |-> FALSE,
                                           result |-> "", tokensUsed |-> 0, cost |-> 0,
                                           account |-> ag.accountId,
                                           error |-> errorMsg]]]

(* The catch block of execute: updateAgentStatus(failed), completeRequest
   with zero usage, the failed result.  dbThrows: updateAgentStatus throws,
   and execute rejects. *)
ExecuteCatch(m, ag, errorMsg, dbThrows) ==
    IF dbThrows
    THEN [m |-> m, agent |-> [ag EXCEPT !.pc = "rejected"]]
    ELSE [m |-> completeRequest(m, ag.accountId, 0, 0),
          agent |-> [ag EXCEPT !.pc = "returned",
                               !.released = @ + 1,
                               !.result = [taskId |-> ag.task.id, success |-> FALSE,
                                           result |-> "", tokensUsed |-> 0, cost |-> 0,
                                           account |-> ag.accountId,
                                           error |-> errorMsg]]]

(* execute from getClient to the await of client.chat.  saved counts the
   conversation records the sub-agent has written; model is the model given
   to client.chat. *)
ExecuteAcquire(m, ag, t, saveAgentThrows, saveConversationThrows, catchThrows) ==
    LET g   == getClient(m, NoAccount, t)
        ag1 == [ag EXCEPT !.accountId = g.id]
    IN IF saveAgentThrows
       THEN [m |-> g.m, agent |-> [ag1 EXCEPT !.pc = "rejected"]]
       ELSE IF saveConversationThrows
       THEN ExecuteCatch(g.m, ag1, DbErrorMsg, catchThrows)
       ELSE [m |-> g.m,
             agent |-> [ag1 EXCEPT !.pc = "chat", !.saved = @ + 1,
                                   !.model = selectModel(ag.task.complexity)]]

(* execute from the return of client.chat to its own return.  recordThrows:
   the saveConversation of the response throws. *)
ExecuteAfterChat(m, ag, resp, recordThrows, catchThrows) ==
    IF ~resp.ok
    THEN ExecuteCatch(m, [ag EXCEPT !.chat = "failed"], ChatErrorMsg, catchThrows)
    ELSE LET result     == IF resp.content = Missing THEN "No response"
                                                     ELSE resp.content
             tokensUsed == resp.tokens
             cost       == SubAgentEstimateCost(tokensUsed,
                                                selectModel(ag.task.complexity))
             m1         == completeRequest(m, ag.accountId, tokensUsed, cost)
             ag1        == [ag EXCEPT !.chat = "ok", !.released = @ + 1]
         IN IF recordThrows
            THEN ExecuteCatch(m1, ag1, DbErrorMsg, catchThrows)
            ELSE [m |-> m1,
                  agent |-> [ag1 EXCEPT !.pc = "returned",
                                        !.saved = @ + 1,
                                        !.result = [taskId |-> ag.task.id,
                                                    success |-> TRUE,
                                                    result |-> result,
                                                    tokensUsed |-> tokensUsed,
                                                    cost |-> cost,
                                                    account |-> ag.accountId,
                                                    error |-> Missing]]]

---------------------------------------------------------------------------
(* SuperAgent: pure parts *)

SuperEstimateCost(tokens) == tokens * RatePerTokenSuper

(* The catch block of decomposeTask. *)
FallbackSubTasks(tsk) ==
    << [id |-> "1", description |-> tsk.description, priority |-> 1,
        parentTaskId |-> tsk.id, complexity |-> tsk.complexity] >>

(* JSON.parse(content) throws on text that is not JSON. *)
JsonParseThrows(content) == content.json = "invalid"

(* subTasksData.map(...) throws when the parsed value has no map method or
   when the callback reads a property of null. *)
MapThrows(content) ==
    \/ content.json = "scalar"
    \/ \E i \in 1..Len(content.elems) : content.elems[i].kind = "null"

MapSubTasks(tsk, elems) ==
    [i \in 1..Len(elems) |->
        [id |-> ToString(i),
         description |-> elems[i].description,
         priority |-> IF elems[i].priority = 0 THEN i ELSE elems[i].priority,
         parentTaskId |-> tsk.id,
         complexity |-> IF elems[i].estimatedComplexity = Missing
                        THEN "medium" ELSE elems[i].estimatedComplexity]]

(* The value decomposeTask returns for a backend response. *)
decomposeTask(tsk, resp) ==
    IF ~resp.ok THEN FallbackSubTasks(tsk)
    ELSE LET content == IF resp.content = NoContent THEN EmptyArray
                                                    ELSE resp.content
         IN IF JsonParseThrows(content) \/ MapThrows(content)
            THEN FallbackSubTasks(tsk)
            ELSE MapSubTasks(tsk, content.elems)

Indices(n) == [i \in 1..n |-> i]

(* A strategy that returns only the results of what it awaited first. *)
FlattenFirstOnly(ss) == IF ss = <<>> THEN <<>> ELSE Head(ss)

RECURSIVE Flatten(_)
Flatten(ss) == IF ss = <<>> THEN <<>> ELSE Head(ss) \o Flatten(Tail(ss))

(* executeSequential starting every sub-agent at once. *)
PlanSequentialAtOnce(strategy, sts) ==
    LET n        == Len(sts)
        simple   == SelectSeq(Indices(n), LAMBDA i : sts[i].complexity = "simple")
        complex  == SelectSeq(Indices(n), LAMBDA i : sts[i].complexity # "simple")
    IN CASE strategy = "parallel"   -> << Indices(n) >>
         [] strategy = "sequential" -> << Indices(n) >>
         [] OTHER -> << simple >> \o [k \in 1..Len(complex) |-> << complex[k] >>]

(* executeParallel awaiting each sub-agent before it starts the next. *)
PlanParallelOneByOne(strategy, sts) ==
    LET n        == Len(sts)
        simple   == SelectSeq(Indices(n), LAMBDA i : sts[i].complexity = "simple")
        complex  == SelectSeq(Indices(n), LAMBDA i : sts[i].complexity # "simple")
    IN CASE strategy = "parallel"   -> [i \in 1..n |-> << i >>]
         [] strategy = "sequential" -> [i \in 1..n |-> << i >>]
         [] OTHER -> << simple >> \o [k \in 1..Len(complex) |-> << complex[k] >>]

(* executeAdaptive running the non-simple subtasks together as well. *)
PlanAdaptiveAllAtOnce(strategy, sts) ==
    LET n        == Len(sts)
        simple   == SelectSeq(Indices(n), LAMBDA i : sts[i].complexity = "simple")
        complex  == SelectSeq(Indices(n), LAMBDA i : sts[i].complexity # "simple")
    IN CASE strategy = "parallel"   -> << Indices(n) >>
         [] strategy = "sequential" -> [i \in 1..n |-> << i >>]
         [] OTHER -> << simple, complex >>

(* executeAdaptive running the non-simple subtasks before the simple ones. *)
PlanAdaptiveComplexFirst(strategy, sts) ==
    LET n        == Len(sts)
        simple   == SelectSeq(Indices(n), LAMBDA i : sts[i].complexity = "simple")
        complex  == SelectSeq(Indices(n), LAMBDA i : sts[i].complexity # "simple")
    IN CASE strategy = "parallel"   -> << Indices(n) >>
         [] strategy = "sequential" -> [i \in 1..n |-> << i >>]
         [] OTHER -> [k \in 1..Len(complex) |-> << complex[k] >>] \o << simple >>

(* The order in which executeParallel / executeSequential / executeAdaptive
   start the sub-agents: a sequence of batches; the sub-agents of a batch are
   started together and awaited together, and the next batch starts when the
   batch has returned. *)
Plan(strategy, sts) ==
    LET n        == Len(sts)
        simple   == SelectSeq(Indices(n), LAMBDA i : sts[i].complexity = "simple")
        complex  == SelectSeq(Indices(n), LAMBDA i : sts[i].complexity # "simple")
    IN CASE strategy = "parallel"   -> << Indices(n) >>
         [] strategy = "sequential" -> [i \in 1..n |-> << i >>]
         [] OTHER -> << simple >> \o [k \in 1..Len(complex) |-> << complex[k] >>]

BoolText(b) == IF b THEN "true" ELSE "false"

(* A template without the subtask label. *)
SubResultBlockUnlabeled(r, i) ==
    << "### Sub-Task", ToString(i), "**Task:**", "",
       "**Success:**", BoolText(r.success), "**Result:**", r.result >>

(* One block of the template in aggregateResults. *)
SubResultBlock(r, i) ==
    << "### Sub-Task", ToString(i), "**Task:**", r.taskId,
       "**Success:**", BoolText(r.success), "**Result:**", r.result >>

RECURSIVE JoinBlocks(_, _)
JoinBlocks(rs, i) ==
    IF i > Len(rs) THEN <<>>
    ELSE SubResultBlock(rs[i], i) \o JoinBlocks(rs, i + 1)

(* A template that leaves the failed results out. *)
SubResultsTextSuccessOnly(rs) ==
    JoinBlocks(SelectSeq(rs, LAMBDA r : r.success), 1)

SubResultsText(rs) == JoinBlocks(rs, 1)

(* The fallback of aggregateResults replaced by a fixed text. *)
aggregateResultsNoFallback(resp, text) ==
    IF ~resp.ok \/ resp.content = Missing
    THEN << "Failed to aggregate results" >>
    ELSE << resp.content >>

(* What aggregateResults returns for the response of the synthesis call:
   the content, a fixed text when the content is absent, and subResultsText
   when the call failed. *)
aggregateResults(resp, text) ==
    IF ~resp.ok THEN text
    ELSE IF resp.content = Missing THEN << "Failed to aggregate results" >>
    ELSE << resp.content >>

(* A reduce that loses the first result's tokens. *)
TotalTokensSkipFirst(rs) ==
    SumSeq([i \in 2..Len(rs) |-> rs[i].tokensUsed])

(* subResults.reduce((sum, r) => sum + r.tokensUsed, 0) *)
TotalTokens(rs) ==
    SumSeq([i \in 1..Len(rs) |-> rs[i].tokensUsed])

TotalCost(rs) == SumSeq([i \in 1..Len(rs) |-> rs[i].cost])

NoTaskResult == [taskId |-> "none", success |-> FALSE, result |-> <<>>,
                 subResults |-> <<>>, tokensUsed |-> 0, cost |-> 0]

FailedTaskResult(tsk, errorMsg) ==
    [taskId |-> tsk.id, success |-> FALSE, result |-> << errorMsg >>,
     subResults |-> <<>>, tokensUsed |-> 0, cost |-> 0]

---------------------------------------------------------------------------
(* State *)

VARIABLES
    accountManager,   \* the AccountManager shared by every agent
    database,         \* the persistence collaborator: can its calls throw,
                      \* and the number of conversation records saved
    config,           \* SuperAgentConfig
    task,             \* the Task given to executeTask
    now,              \* Date.now()
    pc,               \* where executeTask is
    superAccount,     \* accountId held by decomposeTask / aggregateResults
    decomposition,    \* the response the decomposition call got
    activeBefore,     \* each account's activeRequests when decomposeTask returned
    synthesis,        \* the response the synthesis call got
    subTasks,         \* what decomposeTask returned
    batch,            \* index in the plan of the batch being executed
    agents,           \* the SubAgent of each subtask
    activeSubAgents,  \* keys of SuperAgent.activeSubAgents
    subResults,       \* executeTask's subResults, once the strategy returned
    subResultsText,   \* aggregateResults' subResultsText
    taskResult        \* what executeTask resolved with

vars == << accountManager, database, config, task, now, pc, superAccount,
           decomposition, activeBefore, synthesis, subTasks, batch, agents, activeSubAgents,
           subResults, subResultsText, taskResult >>

RateLimits == {60}
MaxConcurrents == {5}
MaxSubAgentsChoices == {1}
TaskComplexities == {"simple", "medium"}

NoResponse == [ok |-> FALSE, content |-> [json |-> "none", elems |-> <<>>],
               tokens |-> 0]

(* Before executeTask is called. *)
NothingStarted ==
    /\ now = 0
    /\ pc = "idle"
    /\ superAccount = NoAccount
    /\ decomposition = NoResponse
    /\ activeBefore = [a \in AccountIds |-> 0]
    /\ synthesis = ChatError
    /\ subTasks = <<>>
    /\ batch = 0
    /\ agents = <<>>
    /\ activeSubAgents = {}
    /\ subResults = <<>>
    /\ subResultsText = <<>>
    /\ taskResult = NoTaskResult

(* The configurations explored.  With a reliable persistence collaborator:
   every load-balancing policy, every strategy, saveHistory on and off.  With
   one whose calls can throw: the defaults of the command line (least-loaded
   is the constructor's default, saveHistory is on unless --no-save). *)
Configurations ==
    [lb : LoadBalancing, strategy : Strategies, saveHistory : BOOLEAN,
     complexity : TaskComplexities, faulty : {FALSE}]
      \cup [lb : {"least-loaded"}, strategy : Strategies, saveHistory : {TRUE},
            complexity : {"medium"}, faulty : {TRUE}]

Init ==
    /\ \E c \in Configurations, rl \in RateLimits, mc \in MaxConcurrents,
          n \in MaxSubAgentsChoices :
          /\ accountManager =
                NewAccountManager([rateLimit |-> rl, maxConcurrent |-> mc],
                                  [rateLimit |-> rl, maxConcurrent |-> mc], c.lb)
          /\ database = [faulty |-> c.faulty, conversations |-> 0]
          /\ config = [maxSubAgents |-> n, strategy |-> c.strategy,
                       saveHistory |-> c.saveHistory]
          /\ task = [id |-> "task", description |-> "whole",
                     complexity |-> c.complexity, priority |-> 3]
    /\ NothingStarted

(* Whether a call of the persistence collaborator throws. *)
DbThrows == IF database.faulty THEN BOOLEAN ELSE {FALSE}

---------------------------------------------------------------------------
(* Order of the callbacks *)

CurrentPlan == Plan(config.strategy, subTasks)

BatchOf(b) == IF b \in 1..Len(CurrentPlan) THEN CurrentPlan[b] ELSE <<>>

InBatch(i) == \E k \in 1..Len(BatchOf(batch)) : BatchOf(batch)[k] = i

(* The synchronous part of a dispatch: sub-agents of the batch not started. *)
SpawnPending ==
    /\ pc = "executing"
    /\ \E i \in 1..Len(agents) : InBatch(i) /\ agents[i].pc = "new"

(* Sub-agents whose waitForAvailability has resolved: their continuation is a
   queued microtask. *)
Passed == {i \in 1..Len(agents) : agents[i].pc = "passed"}

(* Promise.race in place of Promise.all: one returned sub-agent is enough. *)
BatchReturnedAny ==
    \E i \in 1..Len(agents) : InBatch(i) /\ agents[i].pc = "returned"

BatchReturned ==
    \A i \in 1..Len(agents) : InBatch(i) => agents[i].pc = "returned"

BatchRejected ==
    \E i \in 1..Len(agents) : InBatch(i) /\ agents[i].pc = "rejected"

(* The continuation of executeTask after the awaited batch settled. *)
JoinPending ==
    /\ pc = "executing"
    /\ ~SpawnPending
    /\ Passed = {}
    /\ (batch > Len(CurrentPlan) \/ BatchReturned \/ BatchRejected)

(* Timers and backend responses are handled only when no microtask is queued. *)
Urgent == SpawnPending \/ Passed # {} \/ JoinPending

---------------------------------------------------------------------------
(* SuperAgent.executeTask *)

(* The catch block of executeTask: updateAgentStatus(failed), then the failed
   TaskResult; if updateAgentStatus throws, executeTask rejects. *)
ExecuteTaskCatch(errorMsg, dbThrows) ==
    /\ pc' = IF dbThrows THEN "rejected" ELSE "done"
    /\ taskResult' = IF dbThrows THEN taskResult
                     ELSE FailedTaskResult(task, errorMsg)

(* executeTask up to the await of the decomposition call: the optional
   saveConversation, then decomposeTask's getClient and client.chat. *)
ExecuteTask ==
    /\ pc = "idle"
    /\ \E saveThrows \in DbThrows, catchThrows \in DbThrows :
          IF config.saveHistory /\ saveThrows
          THEN /\ ExecuteTaskCatch(DbErrorMsg, catchThrows)
               /\ UNCHANGED << accountManager, database, superAccount >>
          ELSE LET g == getClient(accountManager, NoAccount, now)
               IN /\ accountManager' = g.m
                  /\ database' = IF config.saveHistory
                                 THEN [database EXCEPT !.conversations = @ + 1]
                                 ELSE database
                  /\ superAccount' = g.id
                  /\ pc' = "decomposing"
                  /\ UNCHANGED taskResult
    /\ UNCHANGED << config, task, now, decomposition,
                    activeBefore, synthesis, subTasks, batch, agents,
                    activeSubAgents, subResults, subResultsText >>

(* The decomposition call settles: completeRequest if it returned, the
   subtasks or the fallback, and executeTask goes on to its strategy. *)
DecomposeReturn(resp) ==
    /\ pc = "decomposing"
    /\ accountManager' =
          IF resp.ok
          THEN completeRequest(accountManager, superAccount, resp.tokens,
                               SuperEstimateCost(resp.tokens))
          ELSE accountManager
    /\ decomposition' = resp
    /\ activeBefore' = [a \in AccountIds |->
                          accountManager'.accounts[a].stats.activeRequests]
    /\ subTasks' = decomposeTask(task, resp)
    /\ agents' = [i \in 1..Len(subTasks') |-> NewSubAgent(subTasks'[i])]
    /\ batch' = 1
    /\ pc' = "executing"
    /\ UNCHANGED << database, config, task, now, superAccount, synthesis,
                    activeSubAgents, subResults, subResultsText, taskResult >>

(* A waitForAvailability whose promise is never resolved: no timer is set. *)
AvailabilityCheckNoTimer(i) ==
    /\ accountManager' = AfterAvailabilityCheck(accountManager, now)
    /\ agents' = [agents EXCEPT
                    ![i].pc = IF BothRateLimited(accountManager, now)
                              THEN "waiting" ELSE "passed"]

(* A waitForAvailability that returns without looking at the accounts. *)
AvailabilityCheckNoWait(i) ==
    /\ accountManager' = AfterAvailabilityCheck(accountManager, now)
    /\ agents' = [agents EXCEPT ![i].pc = "passed"]

(* waitForAvailability's check, at the start of execute and at every poll. *)
AvailabilityCheck(i) ==
    /\ accountManager' = AfterAvailabilityCheck(accountManager, now)
    /\ agents' = [agents EXCEPT
                    ![i].pc = IF BothRateLimited(accountManager, now)
                              THEN "sleeping" ELSE "passed",
                    ![i].wakeAt = IF BothRateLimited(accountManager, now)
                                  THEN now + PollMs ELSE @]

(* spawnSubAgent up to the first await of execute. *)
SpawnSubAgent(i) ==
    /\ pc = "executing"
    /\ i \in 1..Len(agents)
    /\ InBatch(i)
    /\ agents[i].pc = "new"
    /\ \A j \in 1..(i - 1) : InBatch(j) => agents[j].pc # "new"
    /\ activeSubAgents' = activeSubAgents \cup {agents[i].task.id}
    /\ AvailabilityCheck(i)
    /\ UNCHANGED << database, config, task, now, pc, superAccount,
                    decomposition, activeBefore, synthesis, subTasks, batch,
                    subResults, subResultsText, taskResult >>

Settled(ag) == ag.pc \in {"returned", "rejected"}

(* execute after waitForAvailability: getClient, saveAgent, saveConversation,
   client.chat issued. *)
Acquire(i) ==
    /\ i \in Passed
    /\ ~SpawnPending
    /\ \A j \in Passed : i <= j
    /\ \E saveAgentThrows \in DbThrows, saveConversationThrows \in DbThrows,
          catchThrows \in DbThrows :
          LET out == ExecuteAcquire(accountManager, agents[i], now, saveAgentThrows,
                                    saveConversationThrows, catchThrows)
          IN /\ accountManager' = out.m
             /\ database' = [database EXCEPT
                                !.conversations = @ + out.agent.saved - agents[i].saved]
             /\ agents' = [agents EXCEPT ![i] = out.agent]
             /\ activeSubAgents' = IF Settled(out.agent)
                                   THEN activeSubAgents \ {agents[i].task.id}
                                   ELSE activeSubAgents
    /\ UNCHANGED << config, task, now, pc, superAccount,
                    decomposition, activeBefore, synthesis, subTasks, batch,
                    subResults, subResultsText, taskResult >>

(* The sub-agent's client.chat settles; execute runs to its end and
   spawnSubAgent removes the sub-agent from activeSubAgents. *)
ChatReturn(i, resp) ==
    /\ i \in 1..Len(agents)
    /\ agents[i].pc = "chat"
    /\ ~Urgent
    /\ \E recordThrows \in DbThrows, catchThrows \in DbThrows :
          LET out == ExecuteAfterChat(accountManager, agents[i], resp,
                                      recordThrows, catchThrows)
          IN /\ accountManager' = out.m
             /\ database' = [database EXCEPT
                                !.conversations = @ + out.agent.saved - agents[i].saved]
             /\ agents' = [agents EXCEPT ![i] = out.agent]
    /\ activeSubAgents' = activeSubAgents \ {agents[i].task.id}
    /\ UNCHANGED << config, task, now, pc, superAccount,
                    decomposition, activeBefore, synthesis, subTasks, batch,
                    subResults, subResultsText, taskResult >>

getActiveSubAgentsCount == Cardinality(activeSubAgents)

(* The awaited batch returned and the strategy has more to start. *)
NextBatch ==
    /\ JoinPending
    /\ batch <= Len(CurrentPlan)
    /\ BatchReturned
    /\ batch' = batch + 1
    /\ UNCHANGED << accountManager, database, config, task, now, pc,
                    superAccount, decomposition, activeBefore, synthesis,
                    subTasks, agents, activeSubAgents, subResults,
                    subResultsText, taskResult >>

(* A spawnSubAgent of the awaited batch rejected: executeTask's catch. *)
DispatchRejected ==
    /\ JoinPending
    /\ batch <= Len(CurrentPlan)
    /\ BatchRejected
    /\ \E catchThrows \in DbThrows : ExecuteTaskCatch(DbErrorMsg, catchThrows)
    /\ UNCHANGED << accountManager, database, config, task, now,
                    superAccount, decomposition, activeBefore, synthesis,
                    subTasks, batch, agents, activeSubAgents, subResults,
                    subResultsText >>

(* The strategy returned its results: aggregateResults up to the await of the
   synthesis call. *)
StartAggregate ==
    /\ JoinPending
    /\ batch > Len(CurrentPlan)
    /\ LET g  == getClient(accountManager, NoAccount, now)
           fl == Flatten(CurrentPlan)
           rs == [k \in 1..Len(fl) |-> agents[fl[k]].result]
       IN /\ accountManager' = g.m
          /\ superAccount' = g.id
          /\ subResults' = rs
          /\ subResultsText' = SubResultsText(rs)
    /\ pc' = "aggregating"
    /\ UNCHANGED << database, config, task, now, decomposition,
                    activeBefore, synthesis, subTasks, batch, agents,
                    activeSubAgents, taskResult >>

(* The synthesis call settles: the final text, the totals, the records of the
   result (recordThrows: the first of them, saveConversation or, without
   saveHistory, updateAgentStatus, throws), the TaskResult. *)
AggregateReturn(resp) ==
    /\ pc = "aggregating"
    /\ ~Urgent
    /\ accountManager' =
          IF resp.ok
          THEN completeRequest(accountManager, superAccount, resp.tokens,
                               SuperEstimateCost(resp.tokens))
          ELSE accountManager
    /\ \E recordThrows \in DbThrows, catchThrows \in DbThrows :
          IF recordThrows
          THEN /\ ExecuteTaskCatch(DbErrorMsg, catchThrows)
               /\ UNCHANGED database
          ELSE /\ pc' = "done"
               /\ database' = IF config.saveHistory
                              THEN [database EXCEPT !.conversations = @ + 1]
                              ELSE database
               /\ taskResult' =
                    [taskId |-> task.id,
                     success |-> TRUE,
                     result |-> aggregateResults(resp, subResultsText),
                     subResults |-> subResults,
                     tokensUsed |-> TotalTokens(subResults),
                     cost |-> TotalCost(subResults)]
    /\ synthesis' = resp
    /\ UNCHANGED << config, task, now, superAccount,
                    decomposition, activeBefore, subTasks, batch, agents,
                    activeSubAgents, subResults, subResultsText >>

(* One executeTask call.  The clock stands still here: with rateLimit 60 and
   at most MaxSubTasks + 2 requests no account becomes rate-limited, so
   waitForAvailability never sleeps and no timestamp leaves the window. *)
Next ==
    \/ ExecuteTask
    \/ \E resp \in DecompResponses : DecomposeReturn(resp)
    \/ \E i \in 1..MaxSubTasks : SpawnSubAgent(i)
    \/ \E i \in 1..MaxSubTasks : Acquire(i)
    \/ \E i \in 1..MaxSubTasks, resp \in ChatResponses : ChatReturn(i, resp)
    \/ NextBatch
    \/ DispatchRejected
    \/ StartAggregate
    \/ \E resp \in ChatResponses : AggregateReturn(resp)

Spec == Init /\ [][Next]_vars

---------------------------------------------------------------------------
(* The AccountManager alone: its public methods called in any order, by any
   caller, with time passing in between. *)

HarnessRateLimits == {1, 2}
HarnessTokens == {0, 1}

InitAccounts ==
    /\ \E lb \in LoadBalancing, rl1 \in HarnessRateLimits, rl2 \in HarnessRateLimits,
          mc \in MaxConcurrents :
          accountManager =
              NewAccountManager([rateLimit |-> rl1, maxConcurrent |-> mc],
                                [rateLimit |-> rl2, maxConcurrent |-> mc], lb)
    /\ database = [faulty |-> FALSE, conversations |-> 0]
    /\ config = [maxSubAgents |-> 1, strategy |-> "adaptive", saveHistory |-> TRUE]
    /\ task = [id |-> "task", description |-> "whole", complexity |-> "medium",
               priority |-> 3]
    /\ NothingStarted

TotalRequests(m) ==
    m.accounts["account1"].stats.totalRequests
        + m.accounts["account2"].stats.totalRequests

CombinedTokens(m) ==
    m.accounts["account1"].stats.totalTokens
        + m.accounts["account2"].stats.totalTokens

CallGetClient(accountId) ==
    /\ TotalRequests(accountManager) < MaxCalls
    /\ accountManager' = getClient(accountManager, accountId, now).m
    /\ UNCHANGED << database, config, task, now, pc, superAccount, decomposition,
                    activeBefore, synthesis, subTasks, batch, agents,
                    activeSubAgents, subResults, subResultsText, taskResult >>

CallCompleteRequest(a, tokensUsed) ==
    /\ tokensUsed = 0 \/ CombinedTokens(accountManager) < MaxCalls
    /\ accountManager' = completeRequest(accountManager, a, tokensUsed,
                                         SuperEstimateCost(tokensUsed))
    /\ UNCHANGED << database, config, task, now, pc, superAccount, decomposition,
                    activeBefore, synthesis, subTasks, batch, agents,
                    activeSubAgents, subResults, subResultsText, taskResult >>

(* Time passes, by TickMs at a time.  A setTimeout that is due fires before
   the clock moves on; the clock is bounded by MaxTicks unless a caller of
   waitForAvailability is asleep, which time alone can release. *)
Tick ==
    /\ ~Urgent
    /\ \A i \in 1..Len(agents) :
          agents[i].pc = "sleeping" => now < agents[i].wakeAt
    /\ \/ now + TickMs <= MaxTicks * TickMs
       \/ \E i \in 1..Len(agents) : agents[i].pc = "sleeping"
    /\ now' = now + TickMs
    /\ UNCHANGED << accountManager, database, config, task, pc, superAccount,
                    decomposition, activeBefore, synthesis, subTasks, batch,
                    agents, activeSubAgents, subResults, subResultsText,
                    taskResult >>

NextAccounts ==
    \/ \E a \in AccountIds \cup {NoAccount} : CallGetClient(a)
    \/ \E a \in AccountIds, t \in HarnessTokens : CallCompleteRequest(a, t)
    \/ Tick

SpecAccounts == InitAccounts /\ [][NextAccounts]_vars

---------------------------------------------------------------------------
(* One executeTask call against accounts that allow one request a minute and
   one request at a time, with time passing: the decomposition call already
   uses up an account's minute, so waitForAvailability sleeps and polls. *)

TimedRateLimits == {1}
TimedMaxConcurrents == {1}

(* Waiting and selection read the responses only through the number of
   subtasks, their complexity and the cost charged: a backend call fails, or
   it returns content and uses one token. *)
TimedChatResponses ==
    {ChatError, [ok |-> TRUE, content |-> "answer", tokens |-> 1]}

TimedDecompResponses ==
    {[ok |-> FALSE, content |-> NoContent, tokens |-> 0]}
      \cup {[ok |-> TRUE, content |-> [json |-> "array", elems |-> a], tokens |-> 1] :
               a \in WellFormedArrays}

InitTimed ==
    /\ \E lb \in LoadBalancing, strategy \in Strategies, rl \in TimedRateLimits,
          mc \in TimedMaxConcurrents, n \in MaxSubAgentsChoices :
          /\ accountManager =
                NewAccountManager([rateLimit |-> rl, maxConcurrent |-> mc],
                                  [rateLimit |-> rl, maxConcurrent |-> mc], lb)
          /\ config = [maxSubAgents |-> n, strategy |-> strategy,
                       saveHistory |-> TRUE]
    /\ database = [faulty |-> FALSE, conversations |-> 0]
    /\ task = [id |-> "task", description |-> "whole", complexity |-> "medium",
               priority |-> 3]
    /\ NothingStarted

(* The setTimeout of waitForAvailability fires: the loop condition is
   evaluated again. *)
Wake(i) ==
    /\ i \in 1..Len(agents)
    /\ agents[i].pc = "sleeping"
    /\ now >= agents[i].wakeAt
    /\ ~Urgent
    /\ AvailabilityCheck(i)
    /\ UNCHANGED << database, config, task, now, pc, superAccount,
                    decomposition, activeBefore, synthesis, subTasks, batch,
                    activeSubAgents, subResults, subResultsText, taskResult >>

(* Time passes while executeTask is awaiting a backend call or a timer; the
   time before the call and after its return changes nothing it reads. *)
TickInFlight ==
    /\ pc \in {"decomposing", "executing", "aggregating"}
    /\ Tick

(* No persistence call throws here, so no spawnSubAgent rejects. *)
NextTimed ==
    \/ ExecuteTask
    \/ \E resp \in TimedDecompResponses : DecomposeReturn(resp)
    \/ \E i \in 1..MaxSubTasks : SpawnSubAgent(i)
    \/ \E i \in 1..MaxSubTasks : Wake(i)
    \/ \E i \in 1..MaxSubTasks : Acquire(i)
    \/ \E i \in 1..MaxSubTasks, resp \in TimedChatResponses : ChatReturn(i, resp)
    \/ NextBatch
    \/ StartAggregate
    \/ \E resp \in TimedChatResponses : AggregateReturn(resp)
    \/ TickInFlight

SpecTimed == InitTimed /\ [][NextTimed]_vars

(* Every backend call eventually returns or fails, ready callbacks run, and
   time advances. *)
SpecTimedFair == InitTimed /\ [][NextTimed]_vars /\ WF_vars(NextTimed)

---------------------------------------------------------------------------
(* Properties *)

Active(a) == accountManager.accounts[a].stats.activeRequests

AgentIds == 1..Len(agents)

(* The executions that hold account a: a call acquired it with getClient and
   is awaiting its backend call, so has not yet called completeRequest. *)
Holders(a) ==
    Cardinality({i \in AgentIds : agents[i].pc = "chat" /\ agents[i].accountId = a})
      + (IF pc \in {"decomposing", "aggregating"} /\ superAccount = a THEN 1 ELSE 0)

(* C1: in every reachable state, each account's activeRequests is the number
   of executions that acquired it and have not yet called completeRequest. *)
ActiveRequestsCountsHolders ==
    \A a \in AccountIds : Active(a) = Holders(a)

(* C2: with sub-agents run under any strategy and any mix of successful and
   failed backend calls (persistence calls returning normally), whenever no
   started sub-agent is still running, each account's activeRequests is what
   it was before the sub-agents were started. *)
ConcurrentExecutesBalance ==
    (/\ ~database.faulty
     /\ pc = "executing"
     /\ \A i \in AgentIds : agents[i].pc \in {"new", "returned"})
    => \A a \in AccountIds : Active(a) = activeBefore[a]

(* Two sub-agents started together have both returned, one after a failed
   backend call and one after a successful one. *)
ConcurrentExecutesBalanceWitness ==
    /\ ~database.faulty
    /\ pc = "executing"
    /\ config.strategy = "parallel"
    /\ Len(agents) >= 2
    /\ \A i \in AgentIds : agents[i].pc = "returned"
    /\ \E i \in AgentIds : agents[i].chat = "failed"
    /\ \E i \in AgentIds : agents[i].chat = "ok"

(* C3: no account's activeRequests is ever negative, whatever the order of
   getClient and completeRequest calls. *)
ActiveRequestsNonNegative ==
    \A a \in AccountIds : Active(a) >= 0

(* completeRequest was called for an account that getClient never returned. *)
UnmatchedCompleteWitness ==
    \E a \in AccountIds :
        /\ accountManager.accounts[a].stats.totalRequests = 0
        /\ accountManager.accounts[a].stats.totalTokens > 0
        /\ Active(a) = 0

(* C4: an execute that returned a result has called completeRequest exactly
   once, whether its backend call succeeded, failed, or succeeded and
   recording the response then threw. *)
ReleasedExactlyOnce ==
    \A i \in AgentIds : agents[i].pc = "returned" => agents[i].released = 1

RECURSIVE SumTokensUsed(_)
SumTokensUsed(rs) ==
    IF rs = <<>> THEN 0 ELSE Head(rs).tokensUsed + SumTokensUsed(Tail(rs))

RECURSIVE SumCost(_)
SumCost(rs) == IF rs = <<>> THEN 0 ELSE Head(rs).cost + SumCost(Tail(rs))

(* C5: a TaskResult with success=true reports as tokensUsed and cost the sums
   over its subResults; one with success=false has no subResults and zero
   totals. *)
TaskAccounting ==
    pc = "done" =>
        IF taskResult.success
        THEN /\ taskResult.tokensUsed = SumTokensUsed(taskResult.subResults)
             /\ taskResult.cost = SumCost(taskResult.subResults)
        ELSE /\ taskResult.subResults = <<>>
             /\ taskResult.tokensUsed = 0
             /\ taskResult.cost = 0

(* A successful TaskResult over two sub-results that both used tokens. *)
TaskAccountingWitness ==
    /\ pc = "done"
    /\ taskResult.success
    /\ Len(taskResult.subResults) = 2
    /\ \A k \in 1..2 : taskResult.subResults[k].tokensUsed > 0

(* C6: executeTask never rejects. *)
ExecuteTaskNeverRejects == pc # "rejected"

(* C7: a throwing persistence call does not alter the outcome: a sub-agent
   whose backend call succeeded returns success=true, and executeTask
   returns success=true with one result per subtask. *)
PersistenceFailuresHarmless ==
    /\ \A i \in AgentIds :
          (agents[i].chat = "ok" /\ Settled(agents[i]))
             => (agents[i].pc = "returned" /\ agents[i].result.success)
    /\ pc \in {"done", "rejected"}
          => (/\ pc = "done"
              /\ taskResult.success
              /\ Len(taskResult.subResults) = Len(subTasks))

EveryBackendCallFailed ==
    /\ ~decomposition.ok
    /\ ~synthesis.ok
    /\ \A i \in AgentIds : agents[i].chat = "failed"

(* C8: when the decomposition call, every sub-agent call and the synthesis
   call fail (persistence calls returning normally), executeTask returns
   success=true with exactly one sub-result, which has success=false, and the
   result text is the labeled block of that sub-result. *)
GracefulTotalFailure ==
    (/\ ~database.faulty
     /\ pc \in {"done", "rejected"}
     /\ EveryBackendCallFailed)
    => /\ pc = "done"
       /\ taskResult.success
       /\ Len(taskResult.subResults) = 1
       /\ ~taskResult.subResults[1].success
       /\ taskResult.result =
             << "### Sub-Task", "1", "**Task:**", "1",
                "**Success:**", "false", "**Result:**", "" >>

GracefulTotalFailureWitness ==
    /\ ~database.faulty
    /\ pc = "done"
    /\ EveryBackendCallFailed
    /\ Len(agents) = 1

(* C9: when some sub-agent's backend call failed (persistence calls returning
   normally), executeTask returns success=true, subResults has one result per
   subtask, the failed ones with success=false, and every result, failed
   ones included, is in the text given to the synthesis call. *)
PartialSuccessIsSuccess ==
    (/\ ~database.faulty
     /\ pc = "done"
     /\ \E i \in AgentIds : agents[i].chat = "failed")
    => /\ taskResult.success
       /\ Len(taskResult.subResults) = Len(subTasks)
       /\ \A i \in AgentIds :
             \E k \in 1..Len(taskResult.subResults) :
                /\ taskResult.subResults[k].taskId = subTasks[i].id
                /\ taskResult.subResults[k].success = (agents[i].chat = "ok")
       /\ Len(subResultsText) = 8 * Len(taskResult.subResults)
       /\ \A k \in 1..Len(taskResult.subResults) :
             /\ subResultsText[8 * (k - 1) + 4] = taskResult.subResults[k].taskId
             /\ subResultsText[8 * (k - 1) + 6]
                   = BoolText(taskResult.subResults[k].success)

PartialSuccessWitness ==
    /\ ~database.faulty
    /\ pc = "done"
    /\ Len(agents) = 2
    /\ \E i \in AgentIds : agents[i].chat = "failed"
    /\ \E i \in AgentIds : agents[i].chat = "ok"
    /\ synthesis.ok

(* The content is not a JSON array of subtask objects: not JSON, not an array,
   or an array with an element that is no object with a description. *)
NotSubTaskArray(content) ==
    \/ content.json \in {"invalid", "scalar"}
    \/ /\ content.json = "array"
       /\ \E k \in 1..Len(content.elems) :
             \/ content.elems[k].kind # "object"
             \/ content.elems[k].description = Missing

(* C10: if the decomposition call failed, or its content is not a JSON array
   of subtask objects, decomposeTask returned exactly one subtask, with the
   task's description and complexity, priority 1 and the task's id as
   parentTaskId. *)
DecompositionFallsBack ==
    (/\ pc \notin {"idle", "decomposing"}
     /\ decomposition # NoResponse
     /\ (~decomposition.ok \/ NotSubTaskArray(decomposition.content)))
    => /\ Len(subTasks) = 1
       /\ subTasks[1].description = task.description
       /\ subTasks[1].complexity = task.complexity
       /\ subTasks[1].priority = 1
       /\ subTasks[1].parentTaskId = task.id

(* C11: decomposeTask never returns an empty list (a response without
   content, or one whose content is the empty array, gives the fallback), and
   every executed task has dispatched at least one sub-agent. *)
DecomposeNeverEmpty ==
    /\ (pc \notin {"idle", "decomposing"} /\ decomposition # NoResponse)
          => Len(subTasks) >= 1
    /\ (pc = "done" /\ taskResult.success)
          => Len(taskResult.subResults) >= 1

(* C12: the subtasks produced by decomposeTask, the sub-agents spawned and
   the entries of TaskResult.subResults are never more than maxSubAgents. *)
SubTasksWithinMaxSubAgents ==
    /\ Len(subTasks) <= config.maxSubAgents
    /\ Cardinality({i \in AgentIds : agents[i].pc # "new"}) <= config.maxSubAgents
    /\ Len(taskResult.subResults) <= config.maxSubAgents

(* The acquisitions of account a recorded within the 60 seconds up to now. *)
InWindow(a) ==
    Len(CleanTimestamps(accountManager.accounts[a].requestTimestamps, now))

(* C13: for each account, the acquisitions recorded within the trailing 60
   seconds are never more than the account's rateLimit. *)
RateLimitRespected ==
    \A a \in AccountIds : InWindow(a) <= accountManager.accounts[a].config.rateLimit

(* C14: an account's activeRequests is never more than its maxConcurrent. *)
ActiveWithinMaxConcurrent ==
    \A a \in AccountIds :
        Active(a) <= accountManager.accounts[a].config.maxConcurrent

Other(a) == IF a = "account1" THEN "account2" ELSE "account1"

(* C15: under least-loaded and cost-optimized, when one account has at least
   rateLimit requests in the trailing 60 seconds and the other has not,
   selectAccount (and so getClient without an accountId) returns the other
   account, whatever the activeRequests and totalCost of the two. *)
PrefersNonLimited ==
    accountManager.strategy \in {"least-loaded", "cost-optimized"} =>
        \A a \in AccountIds :
            (/\ isRateLimited(accountManager, a, now)
             /\ ~isRateLimited(accountManager, Other(a), now))
            => /\ selectAccount(accountManager, now).id = Other(a)
               /\ getClient(accountManager, NoAccount, now).id = Other(a)

(* account1 is rate-limited and account2 is not, while account1 has the fewer
   active requests and the lower cost: the comparison alone would take
   account1. *)
PrefersNonLimitedWitness ==
    /\ accountManager.strategy \in {"least-loaded", "cost-optimized"}
    /\ isRateLimited(accountManager, "account1", now)
    /\ ~isRateLimited(accountManager, "account2", now)
    /\ Active("account1") < Active("account2")
    /\ accountManager.accounts["account1"].stats.totalCost
          < accountManager.accounts["account2"].stats.totalCost
    /\ accountManager.accounts["account2"].stats.totalRequests >= 2

Started(i) == agents[i].pc # "new"

(* The sub-agent has gone past the first await of execute. *)
PastFirstAwait(i) == agents[i].pc \in {"chat", "returned", "rejected"}

(* The strategy returned one result per subtask, in the order it ran them. *)
OneResultPerSubTask ==
    /\ \A i \in AgentIds : agents[i].pc = "returned"
    /\ Len(subResults) = Len(subTasks)
    /\ \A i \in AgentIds :
          \E k \in 1..Len(subResults) : subResults[k] = agents[i].result

(* C16: under the sequential strategy the sub-agent of subtask i+1 is started
   only after the sub-agent of subtask i has returned a result (success or
   failure), and when executeSequential returns, every subtask has been
   executed, in decomposition order. *)
SequentialOneAtATime ==
    config.strategy = "sequential" =>
        /\ \A i \in AgentIds :
              (i > 1 /\ Started(i)) => agents[i - 1].pc = "returned"
        /\ pc = "aggregating" =>
              /\ OneResultPerSubTask
              /\ \A i \in AgentIds : subResults[i].taskId = subTasks[i].id

(* The second subtask's backend call is in flight after the first subtask's
   backend call failed. *)
SequentialAfterFailure ==
    /\ config.strategy = "sequential"
    /\ Len(agents) = 2
    /\ agents[1].pc = "returned"
    /\ agents[1].chat = "failed"
    /\ agents[2].pc = "chat"

(* C17: under the parallel strategy no sub-agent gets past its first await
   before every subtask's sub-agent has been started, executeParallel returns
   only when all have returned, and it returns one result per subtask, failed
   ones included. *)
ParallelAllInFlight ==
    config.strategy = "parallel" =>
        /\ (\E i \in AgentIds : PastFirstAwait(i))
              => \A j \in AgentIds : Started(j)
        /\ pc = "aggregating" =>
              /\ OneResultPerSubTask
              /\ \A i \in AgentIds : subResults[i].taskId = subTasks[i].id

(* One sub-agent's backend call has failed and the other's is still in
   flight. *)
ParallelSurvivesFailure ==
    /\ config.strategy = "parallel"
    /\ Len(agents) = 2
    /\ agents[1].pc = "returned"
    /\ agents[1].chat = "failed"
    /\ agents[2].pc = "chat"

IsSimple(i) == subTasks[i].complexity = "simple"

(* C18: under the adaptive strategy no simple subtask's sub-agent gets past
   its first await before every simple subtask's sub-agent has been started,
   and a non-simple subtask's sub-agent is started only after the sub-agents
   of the non-simple subtasks before it have returned. *)
AdaptivePartition ==
    config.strategy = "adaptive" =>
        /\ (\E i \in AgentIds : IsSimple(i) /\ PastFirstAwait(i))
              => \A j \in AgentIds : IsSimple(j) => Started(j)
        /\ \A i \in AgentIds, j \in AgentIds :
              (i < j /\ ~IsSimple(i) /\ ~IsSimple(j) /\ Started(j))
                 => agents[i].pc = "returned"

(* Two simple subtasks with both backend calls in flight. *)
AdaptiveSimpleOverlap ==
    /\ config.strategy = "adaptive"
    /\ Len(agents) = 2
    /\ \A i \in AgentIds : IsSimple(i) /\ agents[i].pc = "chat"

(* C19: with persistence calls returning normally, every backend call
   eventually settling and time advancing, executeTask eventually completes
   with a TaskResult, under every strategy and policy. *)
ExecuteTaskCompletes == <>(pc = "done")

(* A sub-agent slept in waitForAvailability until the window had passed, and
   executeTask completed after it. *)
WaitedThenCompleted ==
    /\ pc = "done"
    /\ now >= WindowMs
    /\ \E i \in AgentIds : agents[i].wakeAt > 0

(* C20: under round-robin the calls of selectAccount return account1,
   account2, account1, ... from the first call on: the k-th call (counting
   from 0) takes account1 iff k is even, whatever the accounts' state. *)
RoundRobinAlternates ==
    /\ accountManager.currentAccountIndex = 0
    /\ [][(/\ accountManager.strategy = "round-robin"
           /\ accountManager'.currentAccountIndex
                 # accountManager.currentAccountIndex)
          => LET k   == accountManager.currentAccountIndex
                 sel == IF k % 2 = 0 THEN "account1" ELSE "account2"
             IN /\ accountManager'.currentAccountIndex = k + 1
                /\ accountManager'.accounts[sel].stats.totalRequests
                      = accountManager.accounts[sel].stats.totalRequests + 1
                /\ accountManager'.accounts[Other(sel)].stats.totalRequests
                      = accountManager.accounts[Other(sel)].stats.totalRequests]_vars

(* Three selections went to account1, account2, account1, the third one to an
   account that was rate-limited while account2 was not. *)
RoundRobinIgnoresLimits ==
    /\ accountManager.strategy = "round-robin"
    /\ accountManager.currentAccountIndex = 3
    /\ accountManager.accounts["account1"].stats.totalRequests = 2
    /\ accountManager.accounts["account2"].stats.totalRequests = 1
    /\ accountManager.accounts["account1"].config.rateLimit = 1
    /\ accountManager.accounts["account2"].config.rateLimit = 2
    /\ InWindow("account1") = 2

(* C21: with saveHistory false no conversation record is saved during
   executeTask, by the SuperAgent or by a SubAgent. *)
NoSaveSavesNothing ==
    ~config.saveHistory => database.conversations = 0

(* C22: decomposeTask and aggregateResults each leave every account's
   activeRequests as they found it: 0 when decomposeTask has finished on a
   fresh AccountManager, and the value from before the synthesis call when
   executeTask has returned (persistence calls returning normally). *)
SuperAgentReleases ==
    /\ (pc \notin {"idle", "decomposing"} /\ decomposition # NoResponse)
          => \A a \in AccountIds : activeBefore[a] = 0
    /\ (~database.faulty /\ pc = "done")
          => \A a \in AccountIds : Active(a) = activeBefore[a]

(* C23: no SubAgent calls getClient in a state where both accounts are
   rate-limited. *)
NoAcquireWhenBothLimited ==
    [][\A i \in AgentIds :
          (agents[i].pc = "passed" /\ agents'[i].pc # "passed")
             => ~BothRateLimited(accountManager, now)]_vars

(* C24: when a sub-agent's backend call fails (persistence calls returning
   normally), execute returns success=false with an empty result text, zero
   tokensUsed and cost, the acquired account and an error description, having
   called completeRequest once; in that step the account's totalTokens and
   totalCost do not change and its activeRequests goes down by one. *)
FailedCallIsData ==
    /\ [](\A i \in AgentIds :
            (~database.faulty /\ agents[i].chat = "failed")
            => /\ agents[i].pc = "returned"
               /\ agents[i].released = 1
               /\ agents[i].accountId \in AccountIds
               /\ agents[i].result.error \notin {Missing, ""}
               /\ agents[i].result =
                     [taskId |-> subTasks[i].id, success |-> FALSE, result |-> "",
                      tokensUsed |-> 0, cost |-> 0, account |-> agents[i].accountId,
                      error |-> agents[i].result.error])
    /\ [][\A i \in AgentIds :
            (~database.faulty /\ agents[i].pc = "chat" /\ agents'[i].chat = "failed")
            => LET a == agents[i].accountId
               IN /\ accountManager'.accounts[a].stats.totalTokens
                        = accountManager.accounts[a].stats.totalTokens
                  /\ accountManager'.accounts[a].stats.totalCost
                        = accountManager.accounts[a].stats.totalCost
                  /\ accountManager'.accounts[a].stats.activeRequests
                        = Max(0, Active(a) - 1)
                  /\ accountManager'.accounts[Other(a)]
                        = accountManager.accounts[Other(a)]]_vars

(* One sub-agent's call failed and another's succeeded and used tokens. *)
FailedCallWitness ==
    /\ ~database.faulty
    /\ Len(agents) = 2
    /\ agents[1].chat = "failed" /\ agents[1].pc = "returned"
    /\ agents[2].chat = "ok" /\ agents[2].result.tokensUsed > 0

(* The steps of the state machine of a task. *)
PhaseSteps ==
    {<< "idle", "decomposing" >>, << "decomposing", "executing" >>,
     << "executing", "aggregating" >>, << "aggregating", "done" >>}

(* C25: no sub-agent exists before the decomposition step has completed, the
   synthesis call is issued only when every sub-agent has returned, and (with
   persistence calls returning normally) the task goes idle, decomposing,
   executing, aggregating, done in that order, with one getClient for the
   decomposition, one per sub-agent, at most one for the synthesis, and one
   TaskResult that no later step changes. *)
PhasesInOrder ==
    /\ [](/\ pc \in {"idle", "decomposing"}
               => (agents = <<>> /\ decomposition = NoResponse)
          /\ pc = "aggregating"
               => \A i \in AgentIds : agents[i].pc = "returned"
          /\ ~database.faulty
               => /\ TotalRequests(accountManager)
                       = (IF pc = "idle" THEN 0 ELSE 1)
                          + Cardinality({i \in AgentIds :
                                            agents[i].accountId # NoAccount})
                          + (IF pc \in {"aggregating", "done"} THEN 1 ELSE 0)
                  /\ (pc = "done") = (taskResult # NoTaskResult)
                  /\ pc = "done" => taskResult.taskId = task.id)
    /\ [][~database.faulty
            => /\ pc' # pc => << pc, pc' >> \in PhaseSteps
               /\ pc = "done" => taskResult' = taskResult]_vars

(* A task that went through every phase with two sub-agents. *)
PhasesInOrderWitness ==
    /\ ~database.faulty
    /\ pc = "done"
    /\ taskResult.success
    /\ Len(agents) = 2
    /\ synthesis.ok

(* C26: when the strategy has returned, subResults holds exactly one result
   per subtask, each is the result of the one sub-agent of the subtask whose
   id it carries, and under parallel and sequential the i-th result belongs
   to the i-th subtask. *)
OneWorkerPerSubTask ==
    (pc = "aggregating" \/ (pc = "done" /\ taskResult.success))
    => /\ Len(agents) = Len(subTasks)
       /\ Len(subResults) = Len(subTasks)
       /\ \A i \in 1..Len(subTasks) :
             /\ Cardinality({k \in 1..Len(subResults) :
                                subResults[k].taskId = subTasks[i].id}) = 1
             /\ \A k \in 1..Len(subResults) :
                   subResults[k].taskId = subTasks[i].id
                      => subResults[k] = agents[i].result
       /\ config.strategy \in {"parallel", "sequential"}
             => \A i \in 1..Len(subTasks) : subResults[i].taskId = subTasks[i].id
       /\ pc = "done" => taskResult.subResults = subResults

(* Two sub-agents run in parallel, the first failed and the second did not. *)
OneWorkerPerSubTaskWitness ==
    /\ config.strategy = "parallel"
    /\ pc = "done"
    /\ taskResult.success
    /\ Len(taskResult.subResults) = 2
    /\ ~taskResult.subResults[1].success
    /\ taskResult.subResults[2].success

(* The positions of the timestamps strictly newer than 60 seconds before t. *)
NewerThanWindow(ts, t) == {k \in 1..Len(ts) : t - ts[k] < WindowMs}

(* C27: isRateLimited is true exactly when the timestamps strictly newer than
   60 seconds before now are at least rateLimit, and the window it stores
   back is the stored one without the timestamps that are 60 seconds old or
   older, and with every other one (timestamps are stored oldest first). *)
WindowCheckExact ==
    \A a \in AccountIds :
        LET ts    == accountManager.accounts[a].requestTimestamps
            fresh == NewerThanWindow(ts, now)
            after == AfterIsRateLimited(accountManager, a, now)
            kept  == after.accounts[a].requestTimestamps
        IN /\ isRateLimited(accountManager, a, now)
                 = (Cardinality(fresh) >= accountManager.accounts[a].config.rateLimit)
           /\ Len(kept) = Cardinality(fresh)
           /\ kept = SubSeq(ts, Len(ts) - Len(kept) + 1, Len(ts))
           /\ \A k \in 1..Len(kept) : now - kept[k] < WindowMs
           /\ \A k \in 1..(Len(ts) - Len(kept)) : now - ts[k] >= WindowMs
           /\ after.accounts[Other(a)] = accountManager.accounts[Other(a)]
           /\ after.accounts[a].stats = accountManager.accounts[a].stats

(* An account whose request of exactly 60 seconds ago has been removed from
   its window while its request of 30 seconds ago was kept. *)
WindowCheckWitness ==
    /\ now = WindowMs
    /\ \E a \in AccountIds :
          /\ accountManager.accounts[a].stats.totalRequests = 2
          /\ Len(accountManager.accounts[a].requestTimestamps) = 1
          /\ accountManager.accounts[a].requestTimestamps[1] > 0
          /\ accountManager.accounts[a].requestTimestamps[1] < now

(* The synthesis call was made and failed. *)
SynthesisFailed == pc = "done" /\ ~synthesis.ok

(* C28: when the synthesis call fails (persistence calls returning normally)
   executeTask returns success=true and the result text is, for each of
   subResults in order, its number, its subtask's id, its success flag and
   its result text. *)
SynthesisFallbackText ==
    (~database.faulty /\ SynthesisFailed)
    => /\ taskResult.success
       /\ taskResult.subResults = subResults
       /\ Len(taskResult.result) = 8 * Len(subResults)
       /\ \A k \in 1..Len(subResults) :
             SubSeq(taskResult.result, 8 * (k - 1) + 1, 8 * k)
                = << "### Sub-Task", ToString(k), "**Task:**", subResults[k].taskId,
                     "**Success:**", BoolText(subResults[k].success),
                     "**Result:**", subResults[k].result >>

(* The synthesis call failed after two sub-agents had returned their texts. *)
SynthesisFallbackWitness ==
    /\ ~database.faulty
    /\ SynthesisFailed
    /\ Len(subResults) = 2
    /\ \A k \in 1..2 : subResults[k].success /\ subResults[k].result = "answer"

(* Both accounts are rate-limited, or neither is. *)
SameLimitState ==
    isRateLimited(accountManager, "account1", now)
        = isRateLimited(accountManager, "account2", now)

(* C29: under least-loaded, when both accounts are rate-limited or neither
   is, selectAccount returns account1 if its activeRequests is not larger
   than account2's and account2 otherwise. *)
LeastLoadedPicksSmaller ==
    (accountManager.strategy = "least-loaded" /\ SameLimitState)
    => LET id == selectAccount(accountManager, now).id
       IN /\ Active(id) <= Active(Other(id))
          /\ Active("account1") = Active("account2") => id = "account1"
          /\ getClient(accountManager, NoAccount, now).id = id

(* Both accounts are rate-limited and account2 has the fewer active requests
   and the higher cost. *)
LeastLoadedWitness ==
    /\ accountManager.strategy = "least-loaded"
    /\ isRateLimited(accountManager, "account1", now)
    /\ isRateLimited(accountManager, "account2", now)
    /\ Active("account2") < Active("account1")
    /\ accountManager.accounts["account2"].stats.totalCost
          > accountManager.accounts["account1"].stats.totalCost

TotalCostOf(a) == accountManager.accounts[a].stats.totalCost

(* C30: under cost-optimized, when both accounts are rate-limited or neither
   is, selectAccount returns account1 if its totalCost is not larger than
   account2's and account2 otherwise. *)
CostOptimizedPicksCheaper ==
    (accountManager.strategy = "cost-optimized" /\ SameLimitState)
    => LET id == selectAccount(accountManager, now).id
       IN /\ TotalCostOf(id) <= TotalCostOf(Other(id))
          /\ TotalCostOf("account1") = TotalCostOf("account2") => id = "account1"
          /\ getClient(accountManager, NoAccount, now).id = id

(* Neither account is rate-limited and account2 has the lower cost and the
   more active requests. *)
CostOptimizedWitness ==
    /\ accountManager.strategy = "cost-optimized"
    /\ ~isRateLimited(accountManager, "account1", now)
    /\ ~isRateLimited(accountManager, "account2", now)
    /\ TotalCostOf("account2") < TotalCostOf("account1")
    /\ Active("account2") > Active("account1")

Timestamps(a) == accountManager.accounts[a].requestTimestamps

(* The getClient calls made in a step of executeTask: the one of
   decomposeTask, the one of a sub-agent leaving waitForAvailability, the one
   of aggregateResults. *)
GetClientCallsInStep ==
    (IF pc = "idle" /\ pc' = "decomposing" THEN 1 ELSE 0)
      + Cardinality({i \in AgentIds : agents[i].pc = "passed" /\ agents'[i].pc # "passed"})
      + (IF pc = "executing" /\ pc' = "aggregating" THEN 1 ELSE 0)

(* The account a step of executeTask acquired. *)
AcquiredInStep ==
    IF pc = "executing" /\ pc' = "executing"
    THEN {agents'[i].accountId :
             i \in {j \in AgentIds : agents[j].pc = "passed" /\ agents'[j].pc # "passed"}}
    ELSE {superAccount'}

(* C31: whatever the interleaving of the getClient and completeRequest calls
   of the super-agent and of concurrent sub-agents, every getClient call adds
   exactly one to the totalRequests and to the activeRequests of the account
   it returns and appends exactly one timestamp (the current time) to that
   account's window, and changes neither for the other account; a step
   without a getClient call changes no totalRequests and adds no timestamp
   (isRateLimited may drop expired ones). *)
AcquisitionsAtomic ==
    [][LET n == GetClientCallsInStep
       IN /\ n \in {0, 1}
          /\ TotalRequests(accountManager') = TotalRequests(accountManager) + n
          /\ n = 1 =>
                \E a \in AcquiredInStep :
                   /\ a \in AccountIds
                   /\ accountManager'.accounts[a].stats.totalRequests
                         = accountManager.accounts[a].stats.totalRequests + 1
                   /\ accountManager'.accounts[a].stats.activeRequests = Active(a) + 1
                   /\ accountManager'.accounts[a].requestTimestamps
                         \in {Append(Timestamps(a), now),
                              Append(CleanTimestamps(Timestamps(a), now), now)}
                   /\ accountManager'.accounts[Other(a)].stats
                         = accountManager.accounts[Other(a)].stats
                   /\ accountManager'.accounts[Other(a)].requestTimestamps
                         \in {Timestamps(Other(a)),
                              CleanTimestamps(Timestamps(Other(a)), now)}
          /\ n = 0 =>
                \A a \in AccountIds :
                   /\ accountManager'.accounts[a].stats.totalRequests
                         = accountManager.accounts[a].stats.totalRequests
                   /\ accountManager'.accounts[a].requestTimestamps
                         \in {Timestamps(a), CleanTimestamps(Timestamps(a), now)}]_vars

(* Two sub-agents acquired an account one after the other; the first has
   called completeRequest while the second's backend call is in flight. *)
AcquisitionsAtomicWitness ==
    /\ config.strategy = "parallel"
    /\ Len(agents) = 2
    /\ agents[1].pc = "returned"
    /\ agents[1].chat = "ok"
    /\ agents[2].pc = "chat"
    /\ TotalRequests(accountManager) = 3

(* C32: a check of waitForAvailability (at the call and at every poll) made
   while both accounts are rate-limited does not return but sets the next
   poll one second later, and one made while an account is not rate-limited
   returns; with time advancing, every caller that waits eventually returns
   (from some point on no caller is waiting). *)
WaitsWhileBothLimited ==
    /\ [][\A i \in AgentIds :
             (agents[i].pc \in {"new", "sleeping"} /\ agents'[i] # agents[i])
             => IF BothRateLimited(accountManager, now)
                THEN /\ agents'[i].pc = "sleeping"
                     /\ agents'[i].wakeAt = now + PollMs
                ELSE agents'[i].pc = "passed"]_vars
    /\ <>[](\A i \in AgentIds : agents[i].pc # "sleeping")

(* A caller found both accounts rate-limited at its call and again at a later
   poll, and returned at the poll after the window had passed. *)
WaitsWhileBothLimitedWitness ==
    \E i \in AgentIds :
        /\ agents[i].pc = "passed"
        /\ agents[i].wakeAt > PollMs
        /\ now >= WindowMs
        /\ \A a \in AccountIds : accountManager.accounts[a].config.rateLimit >= 1

(* C33: the model a sub-agent gives to its backend call is grok-code-fast-1
   for a simple subtask, grok-3-fast for a medium one, grok-4 for a complex
   one, and grok-3-fast for any other complexity the decomposition returned;
   every sub-agent that issued its call has one. *)
ModelByComplexity ==
    \A i \in AgentIds :
        /\ agents[i].pc = "chat" => agents[i].model # "none"
        /\ agents[i].model # "none" =>
              agents[i].model =
                 (IF subTasks[i].complexity = "simple" THEN "grok-code-fast-1"
                  ELSE IF subTasks[i].complexity = "medium" THEN "grok-3-fast"
                  ELSE IF subTasks[i].complexity = "complex" THEN "grok-4"
                  ELSE "grok-3-fast")

(* The decomposition returned a subtask with the complexity "hard", and its
   sub-agent's backend call is in flight. *)
ModelByComplexityWitness ==
    \E i \in AgentIds :
        /\ subTasks[i].complexity \notin Complexities
        /\ agents[i].pc = "chat"
        /\ agents[i].model = "grok-3-fast"

(* The position in the decomposition of the subtask a result belongs to. *)
SubTaskIndex(r) == CHOOSE i \in 1..Len(subTasks) : subTasks[i].id = r.taskId

(* C34: under the adaptive strategy a non-simple subtask's sub-agent is
   started only when every simple subtask's sub-agent has returned, and the
   results the strategy returns are those of the simple subtasks, in
   decomposition order, followed by those of the non-simple subtasks, in
   decomposition order. *)
AdaptiveSimpleFirst ==
    config.strategy = "adaptive" =>
        /\ \A i \in AgentIds, j \in AgentIds :
              (~IsSimple(i) /\ Started(i) /\ IsSimple(j))
                 => agents[j].pc = "returned"
        /\ pc = "aggregating" =>
              /\ Len(subResults) = Len(subTasks)
              /\ \A k \in 1..Len(subResults), l \in 1..Len(subResults) :
                    k < l =>
                       LET i == SubTaskIndex(subResults[k])
                           j == SubTaskIndex(subResults[l])
                       IN /\ i # j
                          /\ IsSimple(j) => IsSimple(i)
                          /\ (IsSimple(i) = IsSimple(j)) => i < j

(* A non-simple subtask came first in the decomposition and a simple one
   second; the simple one's result is the first of the results. *)
AdaptiveSimpleFirstWitness ==
    /\ config.strategy = "adaptive"
    /\ pc = "aggregating"
    /\ Len(subTasks) = 2
    /\ ~IsSimple(1)
    /\ IsSimple(2)
    /\ subResults[1].taskId = subTasks[2].id
    /\ subResults[2].taskId = subTasks[1].id

(* C35: when executeTask has returned success=true on a fresh AccountManager,
   the two accounts' combined totalTokens is the TaskResult's tokensUsed plus
   the tokens of the decomposition call plus the tokens of the synthesis
   call. *)
TokensConserved ==
    (pc = "done" /\ taskResult.success)
    => CombinedTokens(accountManager)
          = taskResult.tokensUsed + decomposition.tokens + synthesis.tokens

(* execute has started and has neither returned nor thrown. *)
Running(i) == agents[i].pc \in {"sleeping", "waiting", "passed", "chat"}

(* C36: getActiveSubAgentsCount() is the number of sub-agents whose execute
   has started and not yet returned or thrown; it is at most 1 under the
   sequential strategy, and 0 whenever executeTask has returned. *)
ActiveSubAgentsCounted ==
    /\ getActiveSubAgentsCount = Cardinality({i \in AgentIds : Running(i)})
    /\ config.strategy = "sequential" => getActiveSubAgentsCount <= 1
    /\ pc \in {"done", "rejected"} => getActiveSubAgentsCount = 0

Requests(a) == accountManager.accounts[a].stats.totalRequests

(* C37: under round-robin, with every getClient call made without an
   accountId, the two accounts' totalRequests never differ by more than 1
   (account1 is the one that may be ahead), however many sub-agents run
   concurrently. *)
RoundRobinBalanced ==
    accountManager.strategy = "round-robin" =>
        /\ Requests("account1") - Requests("account2") \in {-1, 0, 1}
        /\ Requests("account1") >= Requests("account2")
        /\ Requests("account1") + Requests("account2")
              = accountManager.currentAccountIndex

(* Under round-robin two sub-agents run concurrently after the decomposition
   call: three requests, two of them on account1. *)
RoundRobinBalancedWitness ==
    /\ accountManager.strategy = "round-robin"
    /\ Len(agents) = 2
    /\ \A i \in AgentIds : agents[i].pc = "chat"
    /\ Requests("account1") = 2
    /\ Requests("account2") = 1

(* The sub-agents of i and j are started together by the strategy. *)
StartedTogether(i, j) ==
    \/ config.strategy = "parallel"
    \/ config.strategy = "adaptive" /\ IsSimple(i) /\ IsSimple(j)

(* The account cost-optimized takes while no account is rate-limited. *)
CheaperAccount ==
    IF TotalCostOf("account1") <= TotalCostOf("account2") THEN "account1"
                                                           ELSE "account2"

(* C38: under cost-optimized, with no account rate-limited, the getClient
   calls made with no completeRequest in between select the same account:
   the sub-agents started together all hold the same account, which is the
   cheaper one as long as none of them has completed (account1 when the
   costs are equal, as for the first call on a fresh AccountManager). *)
CostOptimizedSameAccount ==
    (/\ accountManager.strategy = "cost-optimized"
     /\ \A a \in AccountIds : ~isRateLimited(accountManager, a, now))
    => /\ pc = "decomposing" => superAccount = "account1"
       /\ \A i \in AgentIds, j \in AgentIds :
             (/\ StartedTogether(i, j)
              /\ agents[i].accountId # NoAccount
              /\ agents[j].accountId # NoAccount)
             => agents[i].accountId = agents[j].accountId
       /\ (pc = "executing" /\ \A j \in AgentIds : ~Settled(agents[j]))
             => \A i \in AgentIds :
                   agents[i].pc = "chat" => agents[i].accountId = CheaperAccount

(* Two sub-agents started together both hold account2, the cheaper account,
   which least-loaded would not have given to both. *)
CostOptimizedSameAccountWitness ==
    /\ accountManager.strategy = "cost-optimized"
    /\ config.strategy = "parallel"
    /\ Len(agents) = 2
    /\ \A i \in AgentIds : agents[i].pc = "chat" /\ agents[i].accountId = "account2"
    /\ Active("account2") = 2
    /\ Active("account1") = 0
    /\ TotalCostOf("account1") > TotalCostOf("account2")

(* C39: in every state reachable by executing a task, getHealthStatus reports
   a rateLimitRemaining of at least 0 for each account. *)
RateLimitRemainingNonNegative ==
    \A a \in AccountIds :
        getHealthStatus(accountManager, now)[a].rateLimitRemaining >= 0

====
